---- MODULE Spec2Model ----
(***************************************************************************)
(* Option resolution of the tmsu command line (package cli, command.go).   *)
(*                                                                         *)
(* LookupOption(command, name) scans the package-level registry            *)
(* globalOptions and then, for a non-nil command, command.Options(), and   *)
(* returns the address of the loop variable holding the first option whose *)
(* LongName or ShortName equals name, or nil.                              *)
(*                                                                         *)
(* A Command is modelled by what LookupOption reads of it: whether the     *)
(* interface value is nil, and the sequence its Options() method returns.  *)
(* Strings are TLA+ strings: Go's == on strings and TLA+'s = are both      *)
(* exact, byte-for-byte equality.                                          *)
(***************************************************************************)
EXTENDS Naturals, Sequences, FiniteSets

\* Longest Options() sequence a modelled command declares.
MaxOpts == 3

\* The same, in the behaviours that remember an earlier call.
MaxOptsHistory == 2

VARIABLES
    globalOptions,  \* the package-level registry (a Go var, hence mutable state)
    declared,       \* what the selected subcommand's Options() returns
    pc,             \* "idle" before the first call, "returned" after a call
    command,        \* argument of the last call
    name,           \* argument of the last call
    result,         \* the *Option the last call returned
    option,         \* the cell of the loop variable the last call's result points to
    returned,       \* what the last call returned, as it was when it returned
    consulted,      \* whether the last call invoked command.Options()
    panicked,       \* whether the last call invoked Options() on a nil Command
    earlier,        \* an earlier call, remembered for comparison
    later           \* whether the last call was made after the remembered one

vars == <<globalOptions, declared, pc, command, name, result, option,
          returned, consulted, panicked, earlier, later>>

----------------------------------------------------------------------------
\* Values

Option(short, long, description) ==
    [ShortName |-> short, LongName |-> long, Description |-> description]

\* Go's zero Option.
ZeroOption == Option("", "", "")

\* var globalOptions = Options{...}
GlobalOptionsInit ==
    << Option("-v", "--verbose", "show verbose messages"),
       Option("-h", "--help", "show help and exit"),
       Option("-V", "--version", "show version information and exit") >>

\* The nil Command interface value, and a command with a given Options().
NilCommand == [nil |-> TRUE, options |-> <<>>]

MakeCommand(options) == [nil |-> FALSE, options |-> options]

\* Options a subcommand may declare: the tag command's --all, options with
\* only one form, options reusing a global name, a name differing from a
\* global one only in case, and names shared inside the scope.
LocalOptions ==
    { Option("-a", "--all", "apply to all files"),
      Option("", "--all", "long form only"),
      Option("-f", "", "short form only"),
      Option("-v", "--verbose", "command-local verbose"),
      Option("-H", "--VERBOSE", "upper-case variant"),
      Option("--all", "-a", "forms swapped") }

\* Tokens the argument parser may pass as name.
Names ==
    { "-v", "--verbose", "-h", "--help", "-V", "--version",
      "-a", "--all", "-f", "", "--bogus",
      "--VERBOSE", "--verb", "verbose", "-H" }

\* What a caller may store through the returned pointer.
Scribbles == { "overwritten" }

SeqsUpTo(S, n) == UNION { [1..k -> S] : k \in 0..n }

DeclaredSets == SeqsUpTo(LocalOptions, MaxOpts)

\* The options of the behaviours that remember an earlier call: a plain one,
\* one sharing a name with it, and one reusing a global name.
HistoryOptions ==
    { Option("-a", "--all", "apply to all files"),
      Option("", "--all", "long form only"),
      Option("-v", "--verbose", "command-local verbose") }

HistorySets == SeqsUpTo(HistoryOptions, MaxOptsHistory)

NilPtr == [region |-> "nil", index |-> 0]

NoReturn == [found |-> FALSE, scope |-> "none", index |-> 0, value |-> ZeroOption]

NoCall == [valid |-> FALSE, command |-> NilCommand, name |-> "", returned |-> NoReturn]

----------------------------------------------------------------------------
\* LookupOption

\* strings.ToLower on the tokens of the model.
Lower(s) ==
    CASE s = "-V" -> "-v"
      [] s = "-H" -> "-h"
      [] s = "--VERBOSE" -> "--verbose"
      [] OTHER -> s

\* Variant: names compared without regard to case.
MatchesFold(opt, n) ==
    Lower(opt.LongName) = Lower(n) \/ Lower(opt.ShortName) = Lower(n)

\* Variant: only the short form is compared.
MatchesShortOnly(opt, n) == opt.ShortName = n

\* Variant: the empty token is rejected before the comparison.
MatchesNonEmpty(opt, n) == n # "" /\ (opt.LongName = n \/ opt.ShortName = n)

\* option.LongName == name || option.ShortName == name
Matches(opt, n) == opt.LongName = n \/ opt.ShortName = n

\* Variant: the loop stops one element early.
RECURSIVE ScanSkipLast(_, _, _)
ScanSkipLast(options, n, i) ==
    IF i >= Len(options) THEN 0
    ELSE IF Matches(options[i], n) THEN i
    ELSE ScanSkipLast(options, n, i + 1)

\* Variant: the loop does not return at the first match; the last match wins.
RECURSIVE ScanLast(_, _, _)
ScanLast(options, n, i) ==
    IF i > Len(options) THEN 0
    ELSE LET rest == ScanLast(options, n, i + 1) IN
         IF rest # 0 THEN rest
         ELSE IF Matches(options[i], n) THEN i ELSE 0

\* Variant: the loop returns nil as soon as an element does not match.
ScanFirstOnly(options, n, i) ==
    IF i > Len(options) THEN 0
    ELSE IF Matches(options[i], n) THEN i
    ELSE 0

\* for _, option := range options { if ... { return &option } }
\* The index of the element the loop returns at, 0 when it falls through.
RECURSIVE Scan(_, _, _)
Scan(options, n, i) ==
    IF i > Len(options) THEN 0
    ELSE IF Matches(options[i], n) THEN i
    ELSE Scan(options, n, i + 1)

\* Variant: the nil check is missing.
NoNilGuard(c) == TRUE

\* if command != nil
NilGuard(c) == ~c.nil

\* Variant: &globalOptions[i], the address of the registry's own element.
AddrOfElement(scope, i) ==
    IF scope = "global"
    THEN [region |-> "global", index |-> i]
    ELSE [region |-> "option", index |-> 0]

\* &option: the address of the loop variable, a copy of element i, never the
\* address of the element itself.
AddrOf(scope, i) == [region |-> "option", index |-> 0]

\* Variant: the command's options are scanned before the registry.
LookupOptionCommandFirst(c, n) ==
    LET k == IF c.nil THEN 0 ELSE Scan(c.options, n, 1)
        g == Scan(globalOptions, n, 1)
    IN
    IF k # 0
    THEN [found |-> TRUE, scope |-> "command", index |-> k,
          value |-> c.options[k], ptr |-> AddrOf("command", k),
          consulted |-> TRUE, panicked |-> FALSE]
    ELSE IF g # 0
    THEN [found |-> TRUE, scope |-> "global", index |-> g,
          value |-> globalOptions[g], ptr |-> AddrOf("global", g),
          consulted |-> ~c.nil, panicked |-> FALSE]
    ELSE [found |-> FALSE, scope |-> "none", index |-> 0,
          value |-> ZeroOption, ptr |-> NilPtr,
          consulted |-> ~c.nil, panicked |-> FALSE]

\* One call. ptr is the returned pointer and value the Option it points to on
\* return; consulted tells whether command.Options() was invoked, panicked
\* whether it was invoked on the nil interface value.
LookupOption(c, n) ==
    LET g == Scan(globalOptions, n, 1) IN
    IF g # 0
    THEN [found |-> TRUE, scope |-> "global", index |-> g,
          value |-> globalOptions[g], ptr |-> AddrOf("global", g),
          consulted |-> FALSE, panicked |-> FALSE]
    ELSE IF NilGuard(c)
    THEN IF c.nil
         THEN [found |-> FALSE, scope |-> "none", index |-> 0,
               value |-> ZeroOption, ptr |-> NilPtr,
               consulted |-> TRUE, panicked |-> TRUE]
         ELSE LET k == Scan(c.options, n, 1) IN
              IF k # 0
              THEN [found |-> TRUE, scope |-> "command", index |-> k,
                    value |-> c.options[k], ptr |-> AddrOf("command", k),
                    consulted |-> TRUE, panicked |-> FALSE]
              ELSE [found |-> FALSE, scope |-> "none", index |-> 0,
                    value |-> ZeroOption, ptr |-> NilPtr,
                    consulted |-> TRUE, panicked |-> FALSE]
    ELSE [found |-> FALSE, scope |-> "none", index |-> 0,
          value |-> ZeroOption, ptr |-> NilPtr,
          consulted |-> FALSE, panicked |-> FALSE]

\* *p
Deref(p) ==
    IF p.region = "global" THEN globalOptions[p.index] ELSE option

LastCall == [valid |-> TRUE, command |-> command, name |-> name, returned |-> returned]

----------------------------------------------------------------------------
\* Behaviour

Start(sets) ==
    /\ globalOptions = GlobalOptionsInit
    /\ declared \in sets
    /\ pc = "idle"
    /\ command = NilCommand
    /\ name = ""
    /\ result = NilPtr
    /\ option = ZeroOption
    /\ returned = NoReturn
    /\ consulted = FALSE
    /\ panicked = FALSE
    /\ earlier = NoCall
    /\ later = FALSE

Init == Start(DeclaredSets)

InitHistory == Start(HistorySets)

\* The caller invokes LookupOption(c, n), with no command selected or with
\* the selected subcommand. The cell of an earlier call's loop variable is
\* dropped: the model follows only the pointer returned last.
Call(c, n) ==
    \E r \in {LookupOption(c, n)} :
        /\ pc' = "returned"
        /\ command' = c
        /\ name' = n
        /\ result' = r.ptr
        /\ option' = IF r.ptr.region = "option" THEN r.value ELSE ZeroOption
        /\ returned' = [found |-> r.found, scope |-> r.scope,
                        index |-> r.index, value |-> r.value]
        /\ consulted' = r.consulted
        /\ panicked' = r.panicked
        /\ UNCHANGED <<globalOptions, declared>>

Lookup ==
    /\ \E c \in {NilCommand, MakeCommand(declared)}, n \in Names : Call(c, n)
    /\ earlier' = earlier
    /\ later' = earlier.valid

\* The observer remembers the last call, to compare a later one with it.
Remember ==
    /\ pc = "returned"
    /\ earlier' = LastCall
    /\ later' = FALSE
    /\ UNCHANGED <<globalOptions, declared, pc, command, name, result, option,
                   returned, consulted, panicked>>

\* The caller assigns through the pointer it was given: p.Description = d.
WriteThrough ==
    /\ pc = "returned"
    /\ result.region # "nil"
    /\ \E d \in Scribbles :
        IF result.region = "global"
        THEN /\ globalOptions' =
                    [globalOptions EXCEPT ![result.index].Description = d]
             /\ option' = option
        ELSE /\ option' = [option EXCEPT !.Description = d]
             /\ globalOptions' = globalOptions
    /\ UNCHANGED <<declared, pc, command, name, result, returned,
                   consulted, panicked, earlier, later>>

Next == Lookup \/ WriteThrough

Spec == Init /\ [][Next]_vars

NextHistory == Lookup \/ Remember \/ WriteThrough

SpecHistory == InitHistory /\ [][NextHistory]_vars

----------------------------------------------------------------------------
\* Vocabulary of the properties

\* The registry as section 4.3 of the specification lists it.
ExpectedRegistry ==
    << [ShortName |-> "-v", LongName |-> "--verbose",
        Description |-> "show verbose messages"],
       [ShortName |-> "-h", LongName |-> "--help",
        Description |-> "show help and exit"],
       [ShortName |-> "-V", LongName |-> "--version",
        Description |-> "show version information and exit"] >>

\* opt is named n: n is its ShortName or its LongName.
Carries(opt, n) == opt.ShortName = n \/ opt.LongName = n

IsGlobalName(n) == \E i \in 1..3 : Carries(ExpectedRegistry[i], n)

\* The indices of the options of a sequence that are named n.
Carriers(opts, n) == { k \in 1..Len(opts) : Carries(opts[k], n) }

Lowest(S) == CHOOSE k \in S : \A j \in S : k <= j

Returned == pc = "returned"

\* No non-empty name is the ShortName or LongName of two options of opts.
UniqueNames(opts) ==
    \A i, j \in 1..Len(opts) :
        i < j =>
            \A t \in {opts[i].ShortName, opts[i].LongName} :
                t # "" => ~Carries(opts[j], t)

Permutations(n) ==
    { p \in [1..n -> 1..n] : \A i, j \in 1..n : p[i] = p[j] => i = j }

Permuted(opts, p) == [i \in 1..Len(opts) |-> opts[p[i]]]

\* Every permutation of the last call's command gives what the call returned.
OrderIndependent ==
    \A p \in Permutations(Len(command.options)) :
        LET r == LookupOption(MakeCommand(Permuted(command.options, p)), name) IN
        /\ r.found = returned.found
        /\ r.value = returned.value

----------------------------------------------------------------------------
\* Properties

\* C1: a name that is the ShortName or LongName of a global option resolves,
\* for every command and for no command, to an Option whose three fields are
\* those of that global option.
C1_GlobalNamesResolve ==
    Returned =>
        \A i \in 1..3 :
            Carries(ExpectedRegistry[i], name) =>
                /\ returned.found
                /\ result # NilPtr
                /\ returned.value = ExpectedRegistry[i]

C1_Witness ==
    /\ Returned
    /\ command.nil
    /\ name = "-h"
    /\ returned.found
    /\ returned.value = ExpectedRegistry[2]

\* C2: when the command declares an option that has a global option's name
\* but differs from it, a lookup of that name returns the global option and
\* never the command's.
C2_GlobalShadowsCommand ==
    (Returned /\ ~command.nil) =>
        \A k \in 1..Len(command.options), i \in 1..3 :
            ( /\ Carries(command.options[k], name)
              /\ Carries(ExpectedRegistry[i], name)
              /\ command.options[k] # ExpectedRegistry[i] ) =>
                /\ returned.found
                /\ returned.scope = "global"
                /\ returned.value = ExpectedRegistry[i]
                /\ returned.value # command.options[k]

C2_Witness ==
    /\ Returned
    /\ ~command.nil
    /\ name = "--verbose"
    /\ \E k \in 1..Len(command.options) :
          /\ command.options[k].LongName = "--verbose"
          /\ command.options[k].Description = "command-local verbose"
    /\ returned.value = ExpectedRegistry[1]

\* C3: a name carried by an option of the command and by no global option
\* resolves to an option of the command that carries it.
C3_CommandNamesResolve ==
    ( /\ Returned
      /\ ~command.nil
      /\ Carriers(command.options, name) # {}
      /\ ~IsGlobalName(name) ) =>
        /\ returned.found
        /\ result # NilPtr
        /\ \E k \in Carriers(command.options, name) :
              returned.value = command.options[k]

C3_Witness ==
    /\ Returned
    /\ ~command.nil
    /\ name = "--all"
    /\ returned.found
    /\ returned.value = [ShortName |-> "-a", LongName |-> "--all",
                         Description |-> "apply to all files"]

\* C4: a name of no global option is not found when there is no command or
\* when no option of the command carries it; the call returns nil without
\* panicking, and with no command Options() is never invoked.
C4_NotFound ==
    (Returned /\ ~IsGlobalName(name)) =>
        /\ command.nil =>
              /\ ~returned.found
              /\ result = NilPtr
              /\ ~consulted
              /\ ~panicked
        /\ (~command.nil /\ Carriers(command.options, name) = {}) =>
              /\ ~returned.found
              /\ result = NilPtr
              /\ ~panicked

C4_Witness ==
    /\ Returned
    /\ command.nil
    /\ name = "--all"
    /\ Carriers(declared, "--all") # {}
    /\ ~returned.found
    /\ result = NilPtr

\* C5: a call made after a remembered call with the same command and name
\* returns what the remembered call returned, whatever happened in between.
C5_Deterministic ==
    ( /\ Returned
      /\ earlier.valid
      /\ later
      /\ earlier.command = command
      /\ earlier.name = name ) =>
        earlier.returned = returned

C5_Witness ==
    /\ Returned
    /\ earlier.valid
    /\ later
    /\ earlier.command = command
    /\ earlier.name = name
    /\ returned.found
    /\ option.Description \in Scribbles

\* C6: the registry is always the three options of section 4.3, in that
\* order, and no two of them share a ShortName or a LongName.
C6_RegistryFixed ==
    /\ globalOptions = ExpectedRegistry
    /\ \A i, j \in 1..Len(globalOptions) :
          i # j =>
              /\ globalOptions[i].ShortName # globalOptions[j].ShortName
              /\ globalOptions[i].LongName # globalOptions[j].LongName

C6_Witness ==
    /\ Returned
    /\ returned.scope = "global"
    /\ result # NilPtr
    /\ Deref(result).Description \in Scribbles
    /\ globalOptions = ExpectedRegistry

\* C7: an option is returned only if name is exactly its ShortName or its
\* LongName; "-v" is the verbose option and "-V" the version option; names
\* differing from a declared one in case, by a prefix or by dashes are not
\* found unless the command declares them.
C7_ExactMatch ==
    Returned =>
        /\ returned.found =>
              \/ returned.value.ShortName = name
              \/ returned.value.LongName = name
        /\ name = "-v" => (returned.found /\ returned.value = ExpectedRegistry[1])
        /\ name = "-V" => (returned.found /\ returned.value = ExpectedRegistry[3])
        /\ ( /\ name \in {"--VERBOSE", "--verb", "verbose", "-H"}
             /\ (command.nil \/ Carriers(command.options, name) = {}) ) =>
              ~returned.found

C7_Witness ==
    /\ Returned
    /\ ~command.nil
    /\ Carriers(command.options, "-v") # {}
    /\ name = "-V"
    /\ returned.value = ExpectedRegistry[3]

\* C8: when several options of the command carry the name and no global
\* option does, the one at the lowest index is returned.
C8_FirstDeclaredWins ==
    ( /\ Returned
      /\ ~command.nil
      /\ ~IsGlobalName(name)
      /\ Cardinality(Carriers(command.options, name)) >= 2 ) =>
        /\ returned.found
        /\ returned.scope = "command"
        /\ returned.index = Lowest(Carriers(command.options, name))
        /\ returned.value = command.options[Lowest(Carriers(command.options, name))]

C8_Witness ==
    /\ Returned
    /\ ~command.nil
    /\ returned.scope = "command"
    /\ returned.value.LongName = name
    /\ \E j \in 1..Len(command.options) :
          /\ j > returned.index
          /\ command.options[j].ShortName = name
          /\ command.options[j] # returned.value

\* C9, as claimed: for a command whose non-empty names are unique, every
\* permutation of its Options() gives the same result, for every name.
C9_OrderIndependentAnyName ==
    (Returned /\ ~command.nil /\ UniqueNames(command.options)) =>
        OrderIndependent

\* C9, amended: the same, for every name other than the empty one, and for
\* the empty name when at most one option lacks a short or a long form.
C9_OrderIndependent ==
    ( /\ Returned
      /\ ~command.nil
      /\ UniqueNames(command.options)
      /\ (name # "" \/ Cardinality(Carriers(command.options, "")) <= 1) ) =>
        OrderIndependent

C9_Witness ==
    /\ Returned
    /\ ~command.nil
    /\ UniqueNames(command.options)
    /\ name # ""
    /\ returned.scope = "command"
    /\ returned.index = 2

\* C10: the empty name never resolves to a global option; it is not found
\* with no command or when every option of the command has both forms, and
\* otherwise resolves to the first option lacking a short or a long form.
C10_EmptyName ==
    (Returned /\ name = "") =>
        /\ returned.scope # "global"
        /\ ( \/ command.nil
             \/ \A k \in 1..Len(command.options) :
                   /\ command.options[k].ShortName # ""
                   /\ command.options[k].LongName # "" ) =>
              (~returned.found /\ result = NilPtr)
        /\ ( /\ ~command.nil
             /\ \E k \in 1..Len(command.options) :
                   \/ command.options[k].ShortName = ""
                   \/ command.options[k].LongName = "" ) =>
              /\ returned.found
              /\ returned.index = Lowest(Carriers(command.options, ""))
              /\ returned.value = command.options[returned.index]

C10_Witness ==
    /\ Returned
    /\ name = ""
    /\ returned.found
    /\ returned.index = 2
    /\ returned.value.ShortName = ""

====
